---- MODULE Spec2Model ----
(***************************************************************************)
(* A model of src/src/libraries/WorkerMessenger.ts: the reply-listener     *)
(* registry (WorkerMessengerReplyBuffer), the Messenger's dispatch on      *)
(* receive, broadcast, the controller-readiness gate used by unicast and   *)
(* listen, and the platform's delivery of messages to the hooks installed. *)
(*                                                                         *)
(* JavaScript runs one task at a time: a message handler and every         *)
(* callback it invokes run to completion before any other task.  The       *)
(* handler's callback loop is modelled by a stack of frames, one per       *)
(* handler invocation in progress (a callback may call the handler again,  *)
(* synchronously).  Operations of the surrounding program are enabled only *)
(* when the stack is empty.  An await of an external asynchronous result   *)
(* is a point where other tasks (platform events included) may run.        *)
(***************************************************************************)
EXTENDS Integers, Sequences, FiniteSets, TLC

\* ------------------------------------------------------------------ bounds
MaxRecords == 2     \* listener records ever created in one behaviour
MaxDepth == 2       \* handler invocations nested on the call stack
MaxTasks == 1       \* asynchronous calls (unicast, listen, wait) ever started
MaxHooks == 2       \* message-receive hooks ever installed
MaxInFlight == 1    \* activation-event handlers of one call awaiting their check
MaxSent == 1        \* messages a worker posts to clients

\* ------------------------------------------------------------------ values
\* Two of the topics of WorkerMessengerCommand.
Commands == {"notification.displayed", "notification.clicked"}
\* off() called without a command.
NoCommand == "undefined"
Payloads == {"p1", "p2"}
\* The messages unicast is called with.
Messages == {<<"notification.displayed", "p1">>, <<"notification.clicked", "p2">>}
\* SdkEnvironment.getWindowEnv(): the worker role, or a page.
Roles == {"ServiceWorker", "Host"}

\* What a registered callback does when invoked, besides returning.  The
\* callbacks are inputs of the program; each acts on the topic it is invoked
\* for.  cbRedispatch hands the same message to the handler again unless
\* MaxDepth handler invocations are already on the stack.
Callbacks == {"cbNoop", "cbRedispatch", "cbOff", "cbOffAll", "cbOn", "cbOnce"}

\* The callbacks registered where messages are delivered by the platform.
DeliveryCallbacks == {"cbNoop", "cbRedispatch", "cbOff"}

\* ServiceWorkerActiveState, as context.serviceWorkerManager.getActiveState()
\* yields it: two recognized generations, a worker that is not ours, none.
ActiveStates == {"WorkerA", "WorkerB", "ThirdParty", "None"}
\* The windowClient argument of unicast: a client handle, or absent.
Clients == {"client1"}
NoClient == "undefined"
\* The window clients of the worker's origin, controlled by it or not.
WindowClients == {"client1", "client2"}
TaskIds == 1..MaxTasks

\* Environment.supportsServiceWorkers(), by role: a running service worker
\* supports service workers; a page's browser may or may not.
SupportsServiceWorkers(r) == IF r = "ServiceWorker" THEN {TRUE} ELSE BOOLEAN

\* A value of this.replies[command]: undefined (never set), null, or an array.
Undefined == [kind |-> "undefined", items |-> <<>>]
Null == [kind |-> "null", items |-> <<>>]
Array(items) == [kind |-> "array", items |-> items]

VARIABLES
    role,         \* SdkEnvironment.getWindowEnv()
    supportsSW,   \* Environment.supportsServiceWorkers()
    replies,      \* WorkerMessengerReplyBuffer.replies: command -> value
    nextId,       \* identity of the next record object addListener creates
    stack,        \* handler invocations in progress, innermost last
    thrown,       \* exception the latest operation raised to its caller
    rejected,     \* reason the latest operation's promise was rejected with
    workerState,  \* page: what getActiveState() would now yield
    registrationActive, \* worker: self.registration.active is set
    tasks,        \* the asynchronous calls started, and where each stands
    sent,         \* messages posted, in order
    hooks,        \* message-receive hooks installed on the platform
    lastCall,     \* ghost: the latest call of unicast, broadcast, listen or the wait
    event,        \* the message event the platform is running the hooks of
    invoked,      \* ghost: id -> times a once-only record's callback ran
    registered    \* ghost: command -> the registrations in force, in order

regVars == <<replies, nextId, stack, invoked, registered>>
gateVars == <<workerState, registrationActive, tasks, sent, hooks, lastCall>>
vars == <<role, supportsSW, event, thrown, rejected, regVars, gateVars>>

\* ----------------------------------------------- WorkerMessengerReplyBuffer
NewRecord(id, callback, onceListenerOnly) ==
    [id |-> id, callback |-> callback, onceListenerOnly |-> onceListenerOnly]

\* Variant: the lookup without its "|| []".
findListenersRaw(reps, command) ==
    reps[command]

\* this.replies[command.toString()] || []
findListenersForMessage(reps, command) ==
    IF reps[command].kind = "array" THEN reps[command] ELSE Array(<<>>)

\* Variant: the record is put at the front of the array (unshift for push).
addListenerUnshift(reps, command, record) ==
    IF Len(findListenersForMessage(reps, command).items) > 0
    THEN [reps EXCEPT ![command] = Array(<<record>> \o reps[command].items)]
    ELSE [reps EXCEPT ![command] = Array(<<record>>)]

\* Variant: a callback already registered for the topic is not added again.
addListenerDedup(reps, command, record) ==
    IF \E i \in 1..Len(findListenersForMessage(reps, command).items) :
          findListenersForMessage(reps, command).items[i].callback = record.callback
    THEN reps
    ELSE IF Len(findListenersForMessage(reps, command).items) > 0
         THEN [reps EXCEPT ![command] = Array(Append(reps[command].items, record))]
         ELSE [reps EXCEPT ![command] = Array(<<record>>)]

\* Pushes onto the existing array when it holds a record, else assigns a new
\* one-element array.
addListener(reps, command, record) ==
    IF Len(findListenersForMessage(reps, command).items) > 0
    THEN [reps EXCEPT ![command] = Array(Append(reps[command].items, record))]
    ELSE [reps EXCEPT ![command] = Array(<<record>>)]

\* Variant: unsubscribing one topic resets the whole mapping.
deleteListenerRecordsOfAll(reps, command) ==
    [c \in Commands |-> Null]

deleteListenerRecords(reps, command) ==
    [reps EXCEPT ![command] = Null]

deleteAllListenerRecords(reps) ==
    [c \in Commands |-> Undefined]

\* Variant: splice without its count, which removes up to the array's end.
SpliceRest(items, i) ==
    SubSeq(items, 1, i - 1)

\* listenersForCommand.splice(listenerRecordIndex, 1)
Splice(items, i) ==
    SubSeq(items, 1, i - 1) \o SubSeq(items, i + 1, Len(items))

\* The loop of deleteListenerRecord, from index i (1-based) down to 1.
RECURSIVE DeleteLoop(_, _, _)
DeleteLoop(items, targetRecord, i) ==
    IF i < 1 THEN items
    ELSE IF items[i] = targetRecord
         THEN DeleteLoop(Splice(items, i), targetRecord, i - 1)
         ELSE DeleteLoop(items, targetRecord, i - 1)

\* Variant: the removal of a record clears the topic's entry.
deleteListenerRecordClearing(reps, command, targetRecord) ==
    IF reps[command].kind # "array"
    THEN [replies |-> reps, error |-> "TypeError"]
    ELSE [replies |-> [reps EXCEPT ![command] = Null], error |-> "none"]

\* Reading .length of undefined or null raises a TypeError.
deleteListenerRecord(reps, command, targetRecord) ==
    IF reps[command].kind # "array"
    THEN [replies |-> reps, error |-> "TypeError"]
    ELSE [replies |-> [reps EXCEPT ![command] =
                         Array(DeleteLoop(reps[command].items, targetRecord,
                                          Len(reps[command].items)))],
          error |-> "none"]

\* ------------------------------------------------------- dispatch on receive
\* Variant: the test of onceListenerOnly is inverted.
ListenersToRemoveInverted(listenerRecords) ==
    SelectSeq(listenerRecords, LAMBDA r : ~r.onceListenerOnly)

ListenersToRemove(listenerRecords) ==
    SelectSeq(listenerRecords, LAMBDA r : r.onceListenerOnly)

ListenersToCall(listenerRecords) ==
    listenerRecords

\* Variant: only the last of the once-only records is removed.
RemoveLoopOne(res, command, listenersToRemove, i) ==
    IF i < 1 THEN res
    ELSE deleteListenerRecord(res.replies, command, listenersToRemove[i])

\* for (let i = listenersToRemove.length - 1; i >= 0; i--) deleteListenerRecord
RECURSIVE RemoveLoop(_, _, _, _)
RemoveLoop(res, command, listenersToRemove, i) ==
    IF i < 1 \/ res.error # "none" THEN res
    ELSE RemoveLoop(deleteListenerRecord(res.replies, command, listenersToRemove[i]),
                    command, listenersToRemove, i - 1)

\* The handler up to its callback loop: the records to call, the registry
\* after the once-only records are removed, and the error that ends the
\* handler early (iterating a value that is no array raises a TypeError).
Receive(reps, command) ==
    LET listenerRecords == findListenersForMessage(reps, command)
    IN  IF listenerRecords.kind # "array"
        THEN [replies |-> reps, toCall |-> <<>>, error |-> "TypeError"]
        ELSE LET listenersToRemove == ListenersToRemove(listenerRecords.items)
                 listenersToCall == ListenersToCall(listenerRecords.items)
                 removed == RemoveLoop([replies |-> reps, error |-> "none"],
                                       command, listenersToRemove,
                                       Len(listenersToRemove))
             IN  [replies |-> removed.replies,
                  toCall |-> IF removed.error = "none" THEN listenersToCall ELSE <<>>,
                  error |-> removed.error]

\* Ghost: the registrations of a topic once a dispatch has taken the
\* once-only ones.
WithoutOnce(regs) == SelectSeq(regs, LAMBDA g : ~g.once)

Frame(command, payload, toCall, expected) ==
    [command |-> command, payload |-> payload, toCall |-> toCall,
     called |-> <<>>, expected |-> expected]

\* The synchronous part of one handler invocation, entered with the frames
\* stk below it: the registry is updated and a frame holding the callbacks
\* still to run is pushed.  A handler is an async function: an error raised in
\* it rejects the promise it returns and does not reach its caller.
Dispatch(stk, command, payload) ==
    LET r == Receive(replies, command)
    IN  /\ replies' = r.replies
        /\ rejected' = r.error
        /\ thrown' = "none"
        /\ IF r.error = "none"
           THEN /\ stack' = Append(stk, Frame(command, payload, r.toCall,
                                              registered[command]))
                /\ registered' = [registered EXCEPT
                                    ![command] = WithoutOnce(registered[command])]
           ELSE /\ stack' = stk
                /\ UNCHANGED registered

onWorkerMessageReceivedFromPage(command, payload) ==
    /\ role = "ServiceWorker"
    /\ stack = <<>>
    /\ Dispatch(stack, command, payload)
    /\ UNCHANGED <<role, supportsSW, event, nextId, invoked, gateVars>>

onPageMessageReceivedFromServiceWorker(command, payload) ==
    /\ role = "Host"
    /\ stack = <<>>
    /\ Dispatch(stack, command, payload)
    /\ UNCHANGED <<role, supportsSW, event, nextId, invoked, gateVars>>

\* ------------------------------------------------------------ on, once, off
\* The operation completes without raising.
NoError == thrown' = "none" /\ rejected' = "none"

\* this.replies.addListener(command, callback, onceListenerOnly)
Register(command, callback, onceListenerOnly) ==
    /\ replies' = addListener(replies, command,
                              NewRecord(nextId, callback, onceListenerOnly))
    /\ nextId' = nextId + 1
    /\ registered' = [registered EXCEPT ![command] =
                        Append(@, [id |-> nextId, once |-> onceListenerOnly])]

\* if (command) deleteListenerRecords(command) else deleteAllListenerRecords()
Unsubscribe(command) ==
    IF command # NoCommand
    THEN /\ replies' = deleteListenerRecords(replies, command)
         /\ registered' = [registered EXCEPT ![command] = <<>>]
    ELSE /\ replies' = deleteAllListenerRecords(replies)
         /\ registered' = [c \in Commands |-> <<>>]

on(command, callback) ==
    /\ stack = <<>>
    /\ nextId <= MaxRecords
    /\ Register(command, callback, FALSE)
    /\ NoError
    /\ UNCHANGED <<role, supportsSW, event, stack, invoked, gateVars>>

once(command, callback) ==
    /\ stack = <<>>
    /\ nextId <= MaxRecords
    /\ Register(command, callback, TRUE)
    /\ NoError
    /\ UNCHANGED <<role, supportsSW, event, stack, invoked, gateVars>>

off(command) ==
    /\ stack = <<>>
    /\ Unsubscribe(command)
    /\ NoError
    /\ UNCHANGED <<role, supportsSW, event, nextId, stack, invoked, gateVars>>

\* A record that was never added to the registry.
ForeignRecord == NewRecord(0, "cbNoop", FALSE)

\* The records now held by the registry.
HeldRecords ==
    UNION {{replies[c].items[i] : i \in 1..Len(replies[c].items)} : c \in Commands}

\* A direct call of the buffer's public deleteListenerRecord.
DeleteRecord(command, targetRecord) ==
    LET r == deleteListenerRecord(replies, command, targetRecord)
    IN  /\ stack = <<>>
        /\ replies' = r.replies
        /\ thrown' = r.error
        /\ rejected' = "none"
        /\ registered' = IF r.error = "none"
                         THEN [registered EXCEPT ![command] =
                                 SelectSeq(@, LAMBDA g : g.id # targetRecord.id)]
                         ELSE registered
        /\ UNCHANGED <<role, supportsSW, event, nextId, stack, invoked, gateVars>>

\* ------------------------------------------------------- the callback loop
Top == stack[Len(stack)]

\* for (let listenerRecord of listenersToCall)
NextToCall(frame) == Head(frame.toCall)

\* listenerRecord.callback.apply(null, [data.payload])
CallbackArgument(frame) == frame.payload

\* Variant: the loop runs over the topic's array as it is after the callback:
\* records the callback added to the registry are called too.
CalledLive(r) ==
    [stack EXCEPT ![Len(stack)] =
        [Top EXCEPT !.toCall = Tail(Top.toCall) \o
                        SelectSeq(replies'[Top.command].items,
                                  LAMBDA x : x.id >= nextId),
                    !.called = Append(Top.called, <<r.id, CallbackArgument(Top)>>)]]

\* Variant: the loop ends once the topic's entry is no array any more.
CalledWhileHeld(r) ==
    [stack EXCEPT ![Len(stack)] =
        [Top EXCEPT !.toCall = IF replies'[Top.command].kind = "array"
                               THEN Tail(Top.toCall) ELSE <<>>,
                    !.called = Append(Top.called, <<r.id, CallbackArgument(Top)>>)]]

\* The frames once the innermost handler has taken record r off its list.
Called(r) ==
    [stack EXCEPT ![Len(stack)] =
        [Top EXCEPT !.toCall = Tail(Top.toCall),
                    !.called = Append(Top.called, <<r.id, CallbackArgument(Top)>>)]]

\* One iteration of the handler's callback loop: the callback runs, and what
\* it does to the Messenger happens before it returns.
InvokeCallback ==
    /\ stack # <<>>
    /\ Top.toCall # <<>>
    /\ LET r == NextToCall(Top)
           stk == Called(r)
           command == Top.command
       IN  /\ invoked' = IF r.onceListenerOnly
                         THEN [invoked EXCEPT ![r.id] = @ + 1]
                         ELSE invoked
           /\ CASE r.callback = "cbRedispatch" /\ Len(stack) < MaxDepth ->
                     /\ Dispatch(stk, command, Top.payload)
                     /\ UNCHANGED nextId
                [] r.callback = "cbOff" ->
                     /\ Unsubscribe(command)
                     /\ stack' = stk
                     /\ NoError
                     /\ UNCHANGED nextId
                [] r.callback = "cbOffAll" ->
                     /\ Unsubscribe(NoCommand)
                     /\ stack' = stk
                     /\ NoError
                     /\ UNCHANGED nextId
                [] r.callback = "cbOn" /\ nextId <= MaxRecords ->
                     /\ Register(command, "cbNoop", FALSE)
                     /\ stack' = stk
                     /\ NoError
                [] r.callback = "cbOnce" /\ nextId <= MaxRecords ->
                     /\ Register(command, "cbNoop", TRUE)
                     /\ stack' = stk
                     /\ NoError
                [] OTHER ->
                     /\ UNCHANGED <<replies, nextId, thrown, rejected, registered>>
                     /\ stack' = stk
    /\ UNCHANGED <<role, supportsSW, event, gateVars>>

\* No message event is being delivered.  Of an event: its message, the hooks
\* still to be run for it, and (ghost) the callbacks run for it by the hooks
\* that have returned.
NoEvent ==
    [command |-> "none", payload |-> "none", running |-> FALSE, left |-> 0,
     ran |-> <<>>]

\* Variant: a message event is delivered while the handlers of the one
\* before are still on the stack.
MessageEventInterleaved(command, payload) ==
    /\ hooks > 0
    /\ Len(stack) < MaxDepth
    /\ Dispatch(stack, command, payload)
    /\ event' = [command |-> command, payload |-> payload, running |-> TRUE,
                 left |-> hooks - 1, ran |-> <<>>]
    /\ UNCHANGED <<role, supportsSW, nextId, invoked, gateVars>>

\* The platform delivers a message: a task of its own, in which every hook
\* installed by addEventListener('message', ...) (line 168 or 190) is run
\* with the event, in the order installed.  The first hook's handler starts
\* here; each next one starts when the one before returns.
MessageEvent(command, payload) ==
    /\ hooks > 0
    /\ stack = <<>>
    /\ Dispatch(stack, command, payload)
    /\ event' = [command |-> command, payload |-> payload, running |-> TRUE,
                 left |-> hooks - 1, ran |-> <<>>]
    /\ UNCHANGED <<role, supportsSW, nextId, invoked, gateVars>>

\* The callback loop is over: the handler returns.  When it was run as a
\* hook of a message event and a hook is left, the next hook's handler starts
\* with the same event.
HandlerReturn ==
    /\ stack # <<>>
    /\ Top.toCall = <<>>
    /\ IF Len(stack) = 1 /\ event.running /\ event.left > 0
       THEN /\ Dispatch(<<>>, event.command, event.payload)
            /\ event' = [event EXCEPT !.left = @ - 1, !.ran = @ \o Top.called]
       ELSE /\ stack' = SubSeq(stack, 1, Len(stack) - 1)
            /\ event' = IF Len(stack) = 1 /\ event.running
                        THEN [event EXCEPT !.running = FALSE, !.ran = @ \o Top.called]
                        ELSE event
            /\ UNCHANGED <<replies, thrown, rejected, registered>>
    /\ UNCHANGED <<role, supportsSW, nextId, invoked, gateVars>>

\* ------------------------------------------------------- the readiness gate
\* A call not yet made.
FreeTask ==
    [kind |-> "free", pc |-> "idle", command |-> "none", payload |-> "none",
     sampled |-> FALSE, subscribed |-> FALSE, resolved |-> FALSE,
     hSample |-> 0, hYes |-> 0, hNo |-> 0,
     observed |-> FALSE, startedControlled |-> FALSE]

\* The call slot a new asynchronous call takes.
NewTask == CHOOSE t \in TaskIds : tasks[t].kind = "free" /\
                                  \A u \in TaskIds : tasks[u].kind = "free" => t <= u

HasFreeTask == \E t \in TaskIds : tasks[t].kind = "free"

\* context.serviceWorkerManager.getActiveState(): the state when it is read.
getActiveState == workerState

\* Variant: any active worker counts, a third party's included.
isAnyWorkerControllingPage ==
    IF role = "ServiceWorker"
    THEN registrationActive
    ELSE getActiveState # "None"

\* The value isWorkerControllingPage() computes from what it reads now.
isWorkerControllingPage ==
    IF role = "ServiceWorker"
    THEN registrationActive
    ELSE getActiveState = "WorkerA" \/ getActiveState = "WorkerB"

\* Ghost: the activation state is now what the gate waits for: in a page one
\* of the two recognized generations, in the worker an active registration.
Recognized ==
    IF role = "ServiceWorker"
    THEN registrationActive
    ELSE workerState \in {"WorkerA", "WorkerB"}

\* Handlers of the activation event a call has in flight.
InFlight(task) == task.hSample + task.hYes + task.hNo

\* A call with a check or a handler still to run.
Busy(task) ==
    \/ task.pc \in {"check1", "check1r", "check2", "check2r"}
    \/ InFlight(task) > 0

\* A promise settles once: resolve() on a resolved promise does nothing.
FirstResolve(task) == ~task.resolved

\* An async function that throws rejects the promise it returns; a plain
\* function raises to its caller.
Raise(isAsync, e) ==
    IF isAsync THEN [thrown |-> "none", rejected |-> e]
               ELSE [thrown |-> e, rejected |-> "none"]

\* async unicast(...)
UnicastIsAsync == TRUE

Message(to, t, command, payload) ==
    [to |-> to, task |-> t, command |-> command, payload |-> payload]

\* What runs once the promise of waitUntilWorkerControlsPage() resolves: the
\* rest of unicast posts to the controller, the rest of listenForPage
\* installs the hook.  It runs in microtasks of the task that resolved the
\* promise, so no platform event comes in between; the controller object is
\* taken to be there when the post runs.
Continue(t, task) ==
    /\ sent' = IF task.kind = "unicast"
               THEN Append(sent, Message("controller", t, task.command, task.payload))
               ELSE sent
    /\ hooks' = IF task.kind = "listen" THEN hooks + 1 ELSE hooks

\* resolve() called for call t, whose record is otherwise already updated.
Resolve(t, task) ==
    IF FirstResolve(task)
    THEN /\ tasks' = [tasks EXCEPT ![t] = [task EXCEPT !.resolved = TRUE,
                                                      !.pc = "done"]]
         /\ Continue(t, task)
    ELSE /\ tasks' = [tasks EXCEPT ![t] = task]
         /\ UNCHANGED <<sent, hooks>>

StartTask(kind, pc, command, payload) ==
    tasks' = [tasks EXCEPT ![NewTask] =
                [FreeTask EXCEPT !.kind = kind, !.pc = pc, !.command = command,
                                 !.payload = payload,
                                 !.startedControlled = Recognized]]

\* Variant: unicast without its test of windowClient: posting to an absent
\* client raises a TypeError.
unicastUnchecked(command, payload, windowClient) ==
    /\ stack = <<>>
    /\ IF role = "ServiceWorker"
       THEN IF windowClient = NoClient
            THEN /\ thrown' = Raise(UnicastIsAsync, "TypeError").thrown
                 /\ rejected' = Raise(UnicastIsAsync, "TypeError").rejected
                 /\ UNCHANGED <<tasks, sent>>
            ELSE /\ Len(sent) < MaxSent
                 /\ sent' = Append(sent, Message(windowClient, 0, command, payload))
                 /\ NoError
                 /\ UNCHANGED tasks
       ELSE /\ HasFreeTask
            /\ StartTask("unicast", "check1", command, payload)
            /\ NoError
            /\ UNCHANGED sent
    /\ lastCall' = [op |-> "unicast", arg |-> windowClient # NoClient]
    /\ UNCHANGED <<role, supportsSW, event, regVars, workerState, registrationActive, hooks>>

\* unicast: in the worker, posts to the client given or fails; in a page,
\* starts with the check of line 138.
unicast(command, payload, windowClient) ==
    /\ stack = <<>>
    /\ IF role = "ServiceWorker"
       THEN IF windowClient = NoClient
            THEN /\ thrown' = Raise(UnicastIsAsync, "InvalidArgumentError").thrown
                 /\ rejected' = Raise(UnicastIsAsync, "InvalidArgumentError").rejected
                 /\ UNCHANGED <<tasks, sent>>
            ELSE /\ Len(sent) < MaxSent
                 /\ sent' = Append(sent, Message(windowClient, 0, command, payload))
                 /\ NoError
                 /\ UNCHANGED tasks
       ELSE /\ HasFreeTask
            /\ StartTask("unicast", "check1", command, payload)
            /\ NoError
            /\ UNCHANGED sent
    /\ lastCall' = [op |-> "unicast", arg |-> windowClient # NoClient]
    /\ UNCHANGED <<role, supportsSW, event, regVars, workerState, registrationActive, hooks>>

\* Variant: broadcast without its test of the role: in a page self.clients is
\* undefined, and reading matchAll of it raises a TypeError.
broadcastAnyRole(command, payload) ==
    /\ stack = <<>>
    /\ IF role # "ServiceWorker"
       THEN /\ thrown' = "none"
            /\ rejected' = "TypeError"
            /\ UNCHANGED tasks
       ELSE /\ HasFreeTask
            /\ StartTask("broadcast", "matchAll", command, payload)
            /\ NoError
    /\ lastCall' = [op |-> "broadcast", arg |-> FALSE]
    /\ UNCHANGED <<role, supportsSW, event, regVars, workerState, registrationActive,
                   sent, hooks>>

\* broadcast: in a page, returns; in the worker, runs up to its await of
\* self.clients.matchAll(...).
broadcast(command, payload) ==
    /\ stack = <<>>
    /\ IF role # "ServiceWorker"
       THEN /\ NoError
            /\ UNCHANGED tasks
       ELSE /\ HasFreeTask
            /\ StartTask("broadcast", "matchAll", command, payload)
            /\ NoError
    /\ lastCall' = [op |-> "broadcast", arg |-> FALSE]
    /\ UNCHANGED <<role, supportsSW, event, regVars, workerState, registrationActive,
                   sent, hooks>>

\* What clients.matchAll({type: 'window', includeUncontrolled: true}) may
\* yield: the window clients there are, each once, in the platform's order.
MatchAllResults ==
    {<<>>} \cup {<<w>> : w \in WindowClients}
           \cup {<<w, x>> : <<w, x>> \in {y \in WindowClients \X WindowClients : y[1] # y[2]}}

\* Variant: only the first client of the list is posted to.
PostToFirst(t, task, clients) ==
    IF clients = <<>> THEN <<>>
    ELSE <<Message(clients[1], t, task.command, task.payload)>>

\* for (let client of clients) client.postMessage({command, payload})
PostToEach(t, task, clients) ==
    [i \in 1..Len(clients) |-> Message(clients[i], t, task.command, task.payload)]

\* The client query of broadcast call t yields clients: the loop posts and
\* the call returns.
BroadcastResume(t, clients) ==
    /\ stack = <<>>
    /\ tasks[t].pc = "matchAll"
    /\ sent' = sent \o PostToEach(t, tasks[t], clients)
    /\ tasks' = [tasks EXCEPT ![t] = [@ EXCEPT !.pc = "done", !.resolved = TRUE]]
    /\ UNCHANGED <<role, supportsSW, event, thrown, rejected, regVars, workerState,
                   registrationActive, hooks, lastCall>>

\* Variant: listenForPage without the readiness gate.
listenForPageUngated(listenIfPageUncontrolled) ==
    /\ hooks' = hooks + 1
    /\ UNCHANGED tasks

\* listenForPage: installs the hook at once when told to listen uncontrolled,
\* else starts with the check of line 183.
listenForPage(listenIfPageUncontrolled) ==
    IF listenIfPageUncontrolled
    THEN /\ hooks' = hooks + 1
         /\ UNCHANGED tasks
    ELSE /\ HasFreeTask
         /\ StartTask("listen", "check1", "none", "none")
         /\ UNCHANGED hooks

\* Variant: the worker's hook goes through the readiness gate as a page's does.
listenDeferred(listenIfPageUncontrolled) ==
    /\ stack = <<>>
    /\ hooks < MaxHooks
    /\ IF ~supportsSW
       THEN UNCHANGED <<tasks, hooks>>
       ELSE listenForPage(listenIfPageUncontrolled)
    /\ NoError
    /\ lastCall' = [op |-> "listen", arg |-> listenIfPageUncontrolled]
    /\ UNCHANGED <<role, supportsSW, event, regVars, workerState, registrationActive, sent>>

listen(listenIfPageUncontrolled) ==
    /\ stack = <<>>
    /\ hooks < MaxHooks
    /\ IF ~supportsSW
       THEN UNCHANGED <<tasks, hooks>>
       ELSE IF role = "ServiceWorker"
            THEN /\ hooks' = hooks + 1
                 /\ UNCHANGED tasks
            ELSE listenForPage(listenIfPageUncontrolled)
    /\ NoError
    /\ lastCall' = [op |-> "listen", arg |-> listenIfPageUncontrolled]
    /\ UNCHANGED <<role, supportsSW, event, regVars, workerState, registrationActive, sent>>

\* A direct call of waitUntilWorkerControlsPage(): the promise executor runs
\* up to its await of isWorkerControllingPage().
waitUntilWorkerControlsPage ==
    /\ stack = <<>>
    /\ HasFreeTask
    /\ StartTask("wait", "check2", "none", "none")
    /\ NoError
    /\ lastCall' = [op |-> "wait", arg |-> FALSE]
    /\ UNCHANGED <<role, supportsSW, event, regVars, workerState, registrationActive,
                   sent, hooks>>

\* isWorkerControllingPage() reads the activation state for a check of the
\* call's own (line 138 or 183, or line 310).
CheckSample(t) ==
    /\ stack = <<>>
    /\ tasks[t].pc \in {"check1", "check2"}
    /\ tasks' = [tasks EXCEPT ![t] =
                   [@ EXCEPT !.pc = IF tasks[t].pc = "check1" THEN "check1r"
                                                            ELSE "check2r",
                             !.sampled = isWorkerControllingPage,
                             !.observed = tasks[t].observed \/
                                  (tasks[t].pc = "check2" /\ Recognized)]]
    /\ UNCHANGED <<role, supportsSW, event, thrown, rejected, regVars, workerState,
                   registrationActive, sent, hooks, lastCall>>

\* The check of line 138 or 183 returns: its result is logged, and the call
\* goes on to waitUntilWorkerControlsPage(), whose executor runs up to its
\* own await.
LoggedCheckResume(t) ==
    /\ stack = <<>>
    /\ tasks[t].pc = "check1r"
    /\ tasks' = [tasks EXCEPT ![t] = [@ EXCEPT !.pc = "check2"]]
    /\ UNCHANGED <<role, supportsSW, event, thrown, rejected, regVars, workerState,
                   registrationActive, sent, hooks, lastCall>>

\* The check of line 310 returns: resolve, or subscribe to the platform's
\* activation event.
WaitCheckResume(t) ==
    /\ stack = <<>>
    /\ tasks[t].pc = "check2r"
    /\ IF tasks[t].sampled
       THEN Resolve(t, tasks[t])
       ELSE /\ tasks' = [tasks EXCEPT ![t] = [@ EXCEPT !.pc = "subscribed",
                                                       !.subscribed = TRUE]]
            /\ UNCHANGED <<sent, hooks>>
    /\ UNCHANGED <<role, supportsSW, event, thrown, rejected, regVars, workerState,
                   registrationActive, lastCall>>

\* Every subscribed call gets its handler run: the handler starts its check.
Notify(ts) ==
    [t \in TaskIds |-> IF ts[t].subscribed
                       THEN [ts[t] EXCEPT !.hSample = @ + 1]
                       ELSE ts[t]]

EventRoom == \A t \in TaskIds : tasks[t].subscribed => InFlight(tasks[t]) < MaxInFlight

\* The platform: the page's controller changes, and 'controllerchange' fires.
controllerchange(state) ==
    /\ role = "Host"
    /\ stack = <<>>
    /\ state # workerState
    /\ EventRoom
    /\ workerState' = state
    /\ tasks' = Notify(tasks)
    /\ UNCHANGED <<role, supportsSW, event, thrown, rejected, regVars,
                   registrationActive, sent, hooks, lastCall>>

\* The platform: the worker becomes the registration's active worker, and
\* 'activate' fires.  In the worker isWorkerControllingPage() reads
\* synchronously and its caller resumes in a microtask, before any event.
activate ==
    /\ role = "ServiceWorker"
    /\ stack = <<>>
    /\ ~registrationActive
    /\ \A t \in TaskIds : tasks[t].pc \notin {"check1r", "check2r"}
    /\ EventRoom
    /\ registrationActive' = TRUE
    /\ tasks' = Notify(tasks)
    /\ UNCHANGED <<role, supportsSW, event, thrown, rejected, regVars, workerState,
                   sent, hooks, lastCall>>

\* An event handler's isWorkerControllingPage() reads the activation state.
HandlerSample(t) ==
    /\ stack = <<>>
    /\ tasks[t].hSample > 0
    /\ tasks' = [tasks EXCEPT ![t] =
                   [@ EXCEPT !.hSample = @ - 1,
                             !.hYes = IF isWorkerControllingPage THEN @ + 1 ELSE @,
                             !.hNo = IF isWorkerControllingPage THEN @ ELSE @ + 1,
                             !.observed = tasks[t].observed \/ Recognized]]
    /\ UNCHANGED <<role, supportsSW, event, thrown, rejected, regVars, workerState,
                   registrationActive, sent, hooks, lastCall>>

\* An event handler's check returns: if (await ...) resolve().
HandlerResume(t, result) ==
    /\ stack = <<>>
    /\ IF result
       THEN /\ tasks[t].hYes > 0
            /\ Resolve(t, [tasks[t] EXCEPT !.hYes = @ - 1])
       ELSE /\ tasks[t].hNo > 0
            /\ tasks' = [tasks EXCEPT ![t] = [@ EXCEPT !.hNo = @ - 1]]
            /\ UNCHANGED <<sent, hooks>>
    /\ UNCHANGED <<role, supportsSW, event, thrown, rejected, regVars, workerState,
                   registrationActive, lastCall>>

\* ---------------------------------------------------------- specification
Init ==
    /\ role \in Roles
    /\ supportsSW \in SupportsServiceWorkers(role)
    /\ replies = [c \in Commands |-> Undefined]
    /\ nextId = 1
    /\ stack = <<>>
    /\ thrown = "none"
    /\ rejected = "none"
    /\ workerState \in (IF role = "Host" THEN ActiveStates ELSE {"None"})
    /\ registrationActive \in (IF role = "ServiceWorker" THEN BOOLEAN ELSE {FALSE})
    /\ tasks = [t \in TaskIds |-> FreeTask]
    /\ sent = <<>>
    /\ hooks = 0
    /\ lastCall = [op |-> "none", arg |-> FALSE]
    /\ event = NoEvent
    /\ invoked = [i \in 1..MaxRecords |-> 0]
    /\ registered = [c \in Commands |-> <<>>]

RegistryNext ==
    \/ \E c \in Commands, cb \in Callbacks : on(c, cb)
    \/ \E c \in Commands, cb \in Callbacks : once(c, cb)
    \/ \E c \in Commands \cup {NoCommand} : off(c)
    \/ \E c \in Commands, r \in HeldRecords \cup {ForeignRecord} : DeleteRecord(c, r)
    \/ \E c \in Commands, p \in Payloads : onWorkerMessageReceivedFromPage(c, p)
    \/ \E c \in Commands, p \in Payloads : onPageMessageReceivedFromServiceWorker(c, p)
    \/ InvokeCallback
    \/ HandlerReturn

GateNext ==
    \/ \E m \in Messages, w \in Clients \cup {NoClient} : unicast(m[1], m[2], w)
    \/ \E m \in Messages : broadcast(m[1], m[2])
    \/ \E t \in TaskIds, cs \in MatchAllResults : BroadcastResume(t, cs)
    \/ \E f \in BOOLEAN : listen(f)
    \/ waitUntilWorkerControlsPage
    \/ \E t \in TaskIds : CheckSample(t)
    \/ \E t \in TaskIds : LoggedCheckResume(t)
    \/ \E t \in TaskIds : WaitCheckResume(t)
    \/ \E s \in ActiveStates : controllerchange(s)
    \/ activate
    \/ \E t \in TaskIds : HandlerSample(t)
    \/ \E t \in TaskIds, b \in BOOLEAN : HandlerResume(t, b)

\* Listening and the platform's delivery of messages to the hooks installed.
DeliveryNext ==
    \/ \E c \in Commands, cb \in DeliveryCallbacks : on(c, cb)
    \/ \E c \in Commands, cb \in DeliveryCallbacks : once(c, cb)
    \/ \E c \in Commands \cup {NoCommand} : off(c)
    \/ listen(TRUE)
    \/ \E c \in Commands, p \in Payloads : MessageEvent(c, p)
    \/ InvokeCallback
    \/ HandlerReturn

Next == RegistryNext \/ GateNext \/ DeliveryNext

Spec == Init /\ [][Next]_vars

\* The listener registry and dispatch alone, in an environment that stays
\* as it is.
RegistryInit ==
    /\ Init
    /\ supportsSW
    /\ workerState = "None"
    /\ ~registrationActive

RegistrySpec == RegistryInit /\ [][RegistryNext]_vars

\* The registry with hooks installed by listen and messages delivered by the
\* platform to every hook.
DeliverySpec == RegistryInit /\ [][DeliveryNext]_vars

\* The Messenger's public surface where listeners are concerned: on, once,
\* off and listen, the handlers run on a message, and what callbacks do.
PublicNext ==
    \/ \E c \in Commands, cb \in Callbacks : on(c, cb)
    \/ \E c \in Commands, cb \in Callbacks : once(c, cb)
    \/ \E c \in Commands \cup {NoCommand} : off(c)
    \/ listen(TRUE)
    \/ \E c \in Commands, p \in Payloads : onWorkerMessageReceivedFromPage(c, p)
    \/ \E c \in Commands, p \in Payloads : onPageMessageReceivedFromServiceWorker(c, p)
    \/ InvokeCallback
    \/ HandlerReturn

PublicSpec == RegistryInit /\ [][PublicNext]_vars

\* Sending, listening and the readiness gate alone, with no listener
\* registered.
GateSpec == Init /\ [][GateNext]_vars

\* ------------------------------------------------------------ properties
\* The callbacks a handler invocation runs, in order, each with the payload
\* it is given: those already run, then those still to run.
FrameRun(f) ==
    f.called \o [i \in 1..Len(f.toCall) |-> <<f.toCall[i].id, f.payload>>]

RunIds(f) == {FrameRun(f)[n][1] : n \in 1..Len(FrameRun(f))}

CalledIds(f) == {f.called[n][1] : n \in 1..Len(f.called)}

HeldIds(command) ==
    {replies[command].items[i].id : i \in 1..Len(replies[command].items)}

\* The messages call t has posted.
Posts(t) == SelectSeq(sent, LAMBDA m : m.task = t)

\* C1: a once-only listener is taken by the first dispatch of its topic after
\* its registration: every once-only registration in force when a dispatch
\* starts is run by that dispatch exactly once and is out of the registry
\* before any callback of the dispatch runs, so no later dispatch, nested in
\* its own callback or not, finds it; its callback runs at most once in all.
C1_OnceInvokedOnce ==
    /\ \A i \in 1..MaxRecords : invoked[i] <= 1
    /\ \A c \in Commands : \A i \in 1..Len(replies[c].items) :
          replies[c].items[i].onceListenerOnly => invoked[replies[c].items[i].id] = 0
    /\ \A k \in 1..Len(stack) : \A j \in 1..Len(stack[k].expected) :
          LET f == stack[k]
              g == f.expected[j]
          IN  g.once =>
                /\ Cardinality({n \in 1..Len(FrameRun(f)) : FrameRun(f)[n][1] = g.id}) = 1
                /\ g.id \notin HeldIds(f.command)
                /\ invoked[g.id] = IF g.id \in CalledIds(f) THEN 1 ELSE 0

\* A once-only callback has run and has triggered, from inside itself, a
\* nested dispatch of its own topic.
C1_Witness ==
    /\ Len(stack) = 2
    /\ stack[2].command = stack[1].command
    /\ \E j \in 1..Len(stack[1].expected) :
          /\ stack[1].expected[j].once
          /\ stack[1].called # <<>>
          /\ stack[1].called[Len(stack[1].called)][1] = stack[1].expected[j].id
          /\ invoked[stack[1].expected[j].id] = 1

\* C2: a dispatch of a topic runs the persistent (on) listeners registered
\* for it and in force, each exactly once, in registration order, each with
\* the dispatched payload, in the worker's handler and in the page's.
C2_OnListenersInOrder ==
    \A k \in 1..Len(stack) :
       LET f == stack[k]
           ons == WithoutOnce(f.expected)
           onIds == {ons[j].id : j \in 1..Len(ons)}
       IN  /\ SelectSeq(FrameRun(f), LAMBDA e : e[1] \in onIds)
                = [j \in 1..Len(ons) |-> <<ons[j].id, f.payload>>]
           /\ RunIds(f) \subseteq {f.expected[j].id : j \in 1..Len(f.expected)}

\* A dispatch has run two persistent listeners and is about to return.
C2_Witness ==
    \E k \in 1..Len(stack) :
       /\ stack[k].toCall = <<>>
       /\ Len(stack[k].called) = 2
       /\ Len(WithoutOnce(stack[k].expected)) = 2

\* C3: in a page, a message is posted to the controller by a unicast call
\* only after a check of the readiness gate made for that call has read a
\* recognized generation.
C3_PostOnlyOnceControlled ==
    \A i \in 1..Len(sent) :
       sent[i].to = "controller" =>
          /\ role = "Host"
          /\ tasks[sent[i].task].kind = "unicast"
          /\ tasks[sent[i].task].observed

\* A unicast started on a page not yet controlled has posted.
C3_Witness ==
    \E i \in 1..Len(sent) :
       /\ sent[i].to = "controller"
       /\ ~tasks[sent[i].task].startedControlled

\* C4 (as claimed): the wait misses no activation: whenever the activation
\* state is recognized and a call that reached the wait has no check left to
\* run, its wait has resolved.
C4_WaitResolvesWhenControlled ==
    \A t \in TaskIds :
       (/\ tasks[t].kind \in {"unicast", "listen", "wait"}
        /\ ~Busy(tasks[t])
        /\ Recognized) => tasks[t].resolved

\* C5 (as claimed): a page's unicast started while the state was not
\* recognized has, whenever the state is recognized and the call has no check
\* left to run, posted its message to the controller exactly once.
C5_UnicastPostsOnceControlled ==
    \A t \in TaskIds :
       (/\ tasks[t].kind = "unicast"
        /\ ~tasks[t].startedControlled
        /\ ~Busy(tasks[t])
        /\ Recognized)
       => Posts(t) = <<Message("controller", t, tasks[t].command, tasks[t].payload)>>

\* C6 (as claimed): in the worker, unicast without a client raises an
\* invalid-argument error synchronously to its caller and sends nothing.
C6_ThrowsSynchronously ==
    [][\A m \in Messages :
          (role = "ServiceWorker" /\ unicast(m[1], m[2], NoClient))
          => (thrown' = "InvalidArgumentError" /\ sent' = sent)]_vars

\* C6 (amended): in the worker, unicast without a client fails with an
\* invalid-argument error before any suspension and sends nothing; unicast
\* being an async function, the error reaches the caller as the rejection of
\* the promise returned, and nothing is thrown to the caller.
C6_RejectsWithInvalidArgument ==
    [][\A m \in Messages :
          (role = "ServiceWorker" /\ unicast(m[1], m[2], NoClient))
          => /\ rejected' = "InvalidArgumentError"
             /\ thrown' = "none"
             /\ sent' = sent
             /\ tasks' = tasks]_vars

\* A worker's unicast without a client has just failed.
C6_Witness ==
    /\ role = "ServiceWorker"
    /\ lastCall = [op |-> "unicast", arg |-> FALSE]
    /\ rejected = "InvalidArgumentError"
    /\ sent = <<>>

\* C7 (as claimed): deleteListenerRecord on a topic without a sequence, or
\* with a record its sequence does not hold, raises nothing and leaves the
\* registry as it was.
C7_DeleteAbsentIsNoOp ==
    [][\A c \in Commands : \A r \in HeldRecords \cup {ForeignRecord} :
          (/\ DeleteRecord(c, r)
           /\ \/ replies[c].kind # "array"
              \/ r.id \notin HeldIds(c))
          => (thrown' = "none" /\ replies' = replies)]_vars

\* C8: off(T) leaves T without listeners (a dispatch of T would then call
\* nothing) and leaves every other topic's sequence, and what a dispatch of
\* it would call, as they were; off() leaves every topic without listeners.
C8_OffRemovesOnlyItsTopic ==
    [][\A c \in Commands \cup {NoCommand} :
          off(c) =>
             /\ \A d \in Commands :
                   (c = NoCommand \/ d = c) =>
                      /\ Receive(replies', d).toCall = <<>>
                      /\ Receive(replies', d).error = "none"
             /\ \A d \in Commands :
                   (c # NoCommand /\ d # c) =>
                      /\ replies'[d] = replies[d]
                      /\ Receive(replies', d).toCall = Receive(replies, d).toCall]_vars

\* off(T) has acted while another topic holds a listener.
C8_Witness ==
    \E c, d \in Commands :
       /\ replies[c] = Null
       /\ Len(replies[d].items) > 0

\* C9: a dispatch of a topic that has no listener (never registered, emptied
\* by the removal of once-only records, or cleared by off) raises nothing,
\* leaves the registry as it was and has no callback to run.
C9_DispatchWithoutListeners ==
    [][\A c \in Commands : \A p \in Payloads :
          (/\ \/ onWorkerMessageReceivedFromPage(c, p)
              \/ onPageMessageReceivedFromServiceWorker(c, p)
           /\ replies[c].kind = "array" => replies[c].items = <<>>)
          => /\ replies' = replies
             /\ thrown' = "none"
             /\ rejected' = "none"
             /\ invoked' = invoked
             /\ Len(stack') = 1
             /\ stack'[1].toCall = <<>>]_vars

\* A dispatch is in progress with no callback to run and no error, of a
\* topic whose sequence is an array that was emptied.
C9_Witness ==
    /\ Len(stack) = 1
    /\ stack[1].expected = <<>>
    /\ stack[1].called = <<>>
    /\ replies[stack[1].command] = Array(<<>>)
    /\ rejected = "none"

\* A hook a page installs comes from a listen(true) call itself or from a
\* call of listen() whose readiness gate has read a recognized generation,
\* and a call of listen() installs none in the call itself.
C10_GatedStep ==
    /\ (role = "Host" /\ hooks' > hooks) =>
          \/ listen(TRUE)
          \/ \E t \in TaskIds :
                /\ tasks[t].kind = "listen"
                /\ tasks[t].pc # "done"
                /\ tasks'[t].pc = "done"
                /\ tasks'[t].observed
    /\ (role = "Host" /\ listen(FALSE)) => hooks' = hooks

\* C10 (as claimed): in a page, listen() installs the hook only after the
\* readiness gate has read a recognized generation, and listen(true)
\* installs it in the call itself, whatever the controller state.
C10_ListenGatedElseImmediate ==
    [][/\ C10_GatedStep
       /\ (role = "Host" /\ listen(TRUE)) => hooks' = hooks + 1]_vars

\* C10 (amended): in a page, listen() installs the hook only after the
\* readiness gate has read a recognized generation; where service workers
\* are supported, listen(true) installs it in the call itself, whatever the
\* controller state, and where they are not, listen installs nothing.
C10_ListenGatedUnlessTold ==
    [][/\ C10_GatedStep
       /\ (role = "Host" /\ listen(TRUE)) =>
             hooks' = IF supportsSW THEN hooks + 1 ELSE hooks]_vars

\* A page has one hook from a gated listen() that began uncontrolled and one
\* from listen(true) called while uncontrolled.
C10_Witness ==
    /\ role = "Host"
    /\ hooks = 2
    /\ ~Recognized
    /\ lastCall = [op |-> "listen", arg |-> TRUE]
    /\ \E t \in TaskIds :
          /\ tasks[t].kind = "listen"
          /\ tasks[t].pc = "done"
          /\ ~tasks[t].startedControlled

PostsTo(q, w) == SelectSeq(q, LAMBDA m : m.to = w)

\* C12: in a page, a call of broadcast posts nothing, starts nothing that
\* would post later, and returns a promise that is resolved: nothing is
\* thrown and nothing is rejected.
C12_PageBroadcastNoOp ==
    [][\A m \in Messages :
          (role = "Host" /\ broadcast(m[1], m[2]))
          => /\ sent' = sent
             /\ tasks' = tasks
             /\ thrown' = "none"
             /\ rejected' = "none"]_vars

\* A page has called broadcast: nothing was posted, nothing failed.
C12_Witness ==
    /\ role = "Host"
    /\ lastCall = [op |-> "broadcast", arg |-> FALSE]
    /\ sent = <<>>
    /\ thrown = "none"
    /\ rejected = "none"

\* C13: in the worker, when the client query of a broadcast yields its list,
\* the message of the call is posted once to each client of the list and to
\* no other recipient; nothing is posted before the query yields.
C13_BroadcastPostsToEach ==
    [][/\ \A m \in Messages :
             (role = "ServiceWorker" /\ broadcast(m[1], m[2])) => sent' = sent
       /\ \A t \in TaskIds : \A cs \in MatchAllResults :
             BroadcastResume(t, cs) =>
                LET new == SubSeq(sent', Len(sent) + 1, Len(sent'))
                    listed == {cs[i] : i \in 1..Len(cs)}
                IN  /\ SubSeq(sent', 1, Len(sent)) = sent
                    /\ Len(new) = Cardinality(listed)
                    /\ \A w \in listed :
                          PostsTo(new, w) =
                             <<Message(w, t, tasks[t].command, tasks[t].payload)>>
                    /\ \A i \in 1..Len(new) : new[i].to \in listed]_vars

\* A broadcast whose query yielded two clients has posted to both.
C13_Witness ==
    \E t \in TaskIds :
       /\ tasks[t].kind = "broadcast"
       /\ tasks[t].pc = "done"
       /\ \A w \in WindowClients : Len(PostsTo(Posts(t), w)) = 1
       /\ Len(Posts(t)) = 2

\* The callbacks run so far for the message event last delivered by the
\* handlers the platform ran as hooks: those of the hooks that returned, then
\* those of the hook now running.
EventRun ==
    event.ran \o (IF event.running /\ stack # <<>> THEN stack[1].called ELSE <<>>)

\* The times record i was invoked for the message event last delivered.
EventCount(i) == Cardinality({n \in 1..Len(EventRun) : EventRun[n][1] = i})

\* C14 (as claimed): for one message delivered by the platform, each
\* listener record is invoked at most once by the hooks run for it, however
\* many times listen was called.
C14_AtMostOncePerListener ==
    \A i \in 1..MaxRecords : EventCount(i) <= 1

\* C15: a message is delivered only when every handler run for the message
\* before it has returned, with all its callbacks run, and every callback
\* that runs is run for the message delivered last: no callback caused by an
\* earlier message runs after one caused by a later message.
C15_DispatchesInDeliveryOrder ==
    [][/\ \A c \in Commands : \A p \in Payloads :
             MessageEvent(c, p) =>
                /\ stack = <<>>
                /\ ~event.running
                /\ event.left = 0
       /\ InvokeCallback =>
             /\ event.running
             /\ \A k \in 1..Len(stack) :
                   /\ stack[k].command = event.command
                   /\ stack[k].payload = event.payload]_vars

\* A message is being delivered and a callback has run for it, after an
\* earlier message for which a once-only listener ran.
C15_Witness ==
    /\ event.running
    /\ EventRun # <<>>
    /\ \E i \in 1..MaxRecords : invoked[i] = 1 /\ EventCount(i) = 0

\* The once-only registrations a handler invocation found when it started.
OnceIds(f) ==
    {f.expected[j].id : j \in {n \in 1..Len(f.expected) : f.expected[n].once}}

\* C16: while a handler invocation is in progress, from before its first
\* callback on, none of the once-only records it matched is in the registry;
\* no dispatch nested in one of its callbacks has any of them to run; and
\* each of them is run by this invocation exactly once, and by nothing else.
C16_OnceBatchRemovedFirst ==
    \A k \in 1..Len(stack) :
       LET f == stack[k]
       IN  /\ OnceIds(f) \cap HeldIds(f.command) = {}
           /\ \A l \in (k + 1)..Len(stack) : OnceIds(f) \cap RunIds(stack[l]) = {}
           /\ \A i \in OnceIds(f) :
                 /\ Cardinality({n \in 1..Len(FrameRun(f)) : FrameRun(f)[n][1] = i}) = 1
                 /\ invoked[i] = IF i \in CalledIds(f) THEN 1 ELSE 0

\* Two once-only listeners were registered for a topic; the dispatch has run
\* the first, whose callback dispatched the topic again: the nested dispatch
\* has nothing to run and the second is still to be run by the outer one.
C16_Witness ==
    /\ Len(stack) = 2
    /\ Cardinality(OnceIds(stack[1])) = 2
    /\ Len(stack[1].called) = 1
    /\ Len(stack[1].toCall) = 1
    /\ stack[2].command = stack[1].command
    /\ FrameRun(stack[2]) = <<>>

\* C17: on and once add one record per call, whatever is registered already;
\* a dispatch has every record of the topic to run, once each, and takes out
\* of the registry the once-only records and no other record, whatever the
\* callbacks of the records are.
C17_NoDeduplication ==
    [][/\ \A c \in Commands : \A cb \in Callbacks :
             /\ on(c, cb) =>
                   findListenersForMessage(replies', c).items =
                      Append(findListenersForMessage(replies, c).items,
                             NewRecord(nextId, cb, FALSE))
             /\ once(c, cb) =>
                   findListenersForMessage(replies', c).items =
                      Append(findListenersForMessage(replies, c).items,
                             NewRecord(nextId, cb, TRUE))
       /\ \A c \in Commands : \A p \in Payloads :
             (\/ onWorkerMessageReceivedFromPage(c, p)
              \/ onPageMessageReceivedFromServiceWorker(c, p))
             => LET held == findListenersForMessage(replies, c).items
                IN  /\ Len(stack') = 1
                    /\ stack'[1].toCall = held
                    /\ findListenersForMessage(replies', c).items =
                          SelectSeq(held, LAMBDA r : ~r.onceListenerOnly)]_vars

\* One callback was registered for a topic by once and by on; a dispatch has
\* both records to run, and the registry keeps the record made by on.
C17_Witness ==
    /\ Len(stack) = 1
    /\ stack[1].called = <<>>
    /\ Len(stack[1].toCall) = 2
    /\ stack[1].toCall[1].callback = stack[1].toCall[2].callback
    /\ stack[1].toCall[1].onceListenerOnly
    /\ replies[stack[1].command] = Array(<<stack[1].toCall[2]>>)

C19_RegisteredInCallbackWaits ==
    [][InvokeCallback =>
          /\ \A k \in 1..Len(stack) : RunIds(stack'[k]) \subseteq RunIds(stack[k])
          /\ nextId' # nextId =>
                LET next == Receive(replies', Top.command).toCall
                IN  /\ nextId \in HeldIds(Top.command)'
                    /\ \A k \in 1..Len(stack') : nextId \notin RunIds(stack'[k])
                    /\ nextId \in {next[i].id : i \in 1..Len(next)}]_vars

\* A dispatch has run its one listener, whose callback registered another
\* for the topic: the new one is in the registry and was not run.
C19_Witness ==
    /\ Len(stack) = 1
    /\ stack[1].toCall = <<>>
    /\ Len(stack[1].called) = 1
    /\ Len(stack[1].expected) = 1
    /\ 2 \in HeldIds(stack[1].command)
    /\ 2 \notin RunIds(stack[1])

\* C20: a callback's off(T) or off() during a dispatch of T leaves the
\* callbacks of every handler invocation in progress as they were: each still
\* runs every record it matched when it started, in order; a dispatch of T
\* started afterwards has none of the removed listeners to run.
C20_OffInCallbackDoesNotCancel ==
    [][(InvokeCallback /\ NextToCall(Top).callback \in {"cbOff", "cbOffAll"})
          => /\ Len(stack') = Len(stack)
             /\ \A k \in 1..Len(stack) :
                   /\ FrameRun(stack'[k]) = FrameRun(stack[k])
                   /\ [n \in 1..Len(FrameRun(stack'[k])) |-> FrameRun(stack'[k])[n][1]]
                        = [j \in 1..Len(stack[k].expected) |-> stack[k].expected[j].id]
             /\ Receive(replies', Top.command).toCall = <<>>
             /\ Receive(replies', Top.command).error = "none"]_vars

\* The first of two listeners of a topic unsubscribed the topic from its
\* callback: the topic's entry is null and the second listener is still to
\* be run by the dispatch.
C20_Witness ==
    /\ Len(stack) = 1
    /\ Len(stack[1].expected) = 2
    /\ Len(stack[1].called) = 1
    /\ Len(stack[1].toCall) = 1
    /\ stack[1].toCall[1].callback = "cbNoop"
    /\ replies[stack[1].command] = Null

\* C21: with the registry reached through on, once, off, listen and the
\* handlers only, callbacks that dispatch again or unsubscribe included, no
\* handler has failed, and in every state, inside a callback or between
\* messages, a dispatch of any topic would end its removal of once-only
\* records without an error of the registry: deleteListenerRecord is called
\* only for a topic whose entry is an array.
C21_DispatchNeverFailsInRegistry ==
    /\ rejected = "none"
    /\ thrown = "none"
    /\ \A c \in Commands :
          /\ Receive(replies, c).error = "none"
          /\ ListenersToRemove(findListenersForMessage(replies, c).items) # <<>>
                => replies[c].kind = "array"

\* A hook is installed; a dispatch took a once-only record out of the
\* registry, a callback of it unsubscribed the topic, leaving its entry
\* null, and another dispatched the topic again: nothing has failed.
C21_Witness ==
    /\ hooks > 0
    /\ Len(stack) = 2
    /\ OnceIds(stack[1]) # {}
    /\ stack[2].command = stack[1].command
    /\ replies[stack[1].command] = Null
    /\ rejected = "none"

====
